---- MODULE Spec2Model ----
(***************************************************************************)
(* Traffic management service: the in-memory event store                   *)
(* (app/Database/database.py), the ingestion endpoint                      *)
(* (app/Blueprints/Ingestion/ingestion.py), the analytics engine           *)
(* (app/Analytics/traffic_analytics.py) and the Socket.IO hub              *)
(* (app/WebSocket/events.py).                                              *)
(*                                                                         *)
(* Three specifications share the variables:                               *)
(*   Spec        the service, one action per request handler / timer;      *)
(*   SpecStore   the store called from several threads, one action per     *)
(*               step of add_event / clear_events / get_recent_events;     *)
(*   SpecCaller  the store and a caller that keeps and writes to the       *)
(*               objects the store handed out.                             *)
(***************************************************************************)
EXTENDS Integers, Sequences, FiniteSets, TLC

VARIABLES
    _EVENTS,            \* database.py:4   the list of stored event dicts
    _NEXT_ID,           \* database.py:6   next id to assign
    _LOCK,              \* database.py:5   "free" or the thread holding it
    socketio_instance,  \* events.py:11    TRUE once init_websocket_events ran
    update_timers,      \* events.py:12    sid -> timer registry (set of sids)
    connected,          \* sessions the Socket.IO server has open
    room,               \* members of the room 'traffic_updates'
    timers,             \* number of pending Timer(10.0, send_update)
    now,                \* the wall clock read by datetime.now()
    emitted,            \* messages emitted by the last handler, in order
    last,               \* the last operation: [op, sid, arg, ret]
    pc,                 \* SpecStore: position of each thread
    local,              \* SpecStore: locals of each thread
    assigned,           \* SpecStore: history, ids handed out so far
    caller_refs,        \* SpecCaller: positions of _EVENTS the caller aliases
    serving             \* manage.py:35   TRUE until socketio.run has returned

vars == <<_EVENTS, _NEXT_ID, _LOCK, socketio_instance, update_timers, connected,
          room, timers, now, emitted, last, pc, local, assigned, caller_refs,
          serving>>

-----------------------------------------------------------------------------
(* Bounds of the model *)

MaxEvents == 2      \* add_event is not taken when the store holds this many
MaxTimers == 2      \* subscribe is not taken when this many timers are pending

\* Readings of the wall clock
ClockValues == {0, 1}

Sessions == {"s1", "s2"}
Threads == {"t1", "t2", "t3"}

-----------------------------------------------------------------------------
(* Python values *)

Min(a, b) == IF a < b THEN a ELSE b
Max(a, b) == IF a > b THEN a ELSE b

Reverse(s) == [i \in 1..Len(s) |-> s[Len(s) + 1 - i]]

\* lst[:n] for n >= 0
Take(s, n) == SubSeq(s, 1, Min(n, Len(s)))

\* lst[:n] with Python's slice semantics: a negative n counts from the end
PySlice(s, n) == IF n >= 0 THEN Take(s, n) ELSE Take(s, Max(Len(s) + n, 0))

\* JSON scalars as they arrive in a request body
JInt(n) == [t |-> "int", n |-> n, s |-> ""]
JStr(s) == [t |-> "str", n |-> 0, s |-> s]
JNull == [t |-> "null", n |-> 0, s |-> ""]

Digit(d) ==
    CASE d = 0 -> "0" [] d = 1 -> "1" [] d = 2 -> "2" [] d = 3 -> "3"
      [] d = 4 -> "4" [] d = 5 -> "5" [] d = 6 -> "6" [] d = 7 -> "7"
      [] d = 8 -> "8" [] d = 9 -> "9"

RECURSIVE NatStr(_)
NatStr(n) == IF n < 10 THEN Digit(n) ELSE NatStr(n \div 10) \o Digit(n % 10)

\* str(x)
py_str(x) ==
    CASE x.t = "str" -> x.s
      [] x.t = "null" -> "None"
      [] x.t = "int" -> IF x.n < 0 THEN "-" \o NatStr(0 - x.n) ELSE NatStr(x.n)

\* The integer literals among the strings the requests carry; int(s) and
\* float(s) raise ValueError on every other string used here.
NumeralValue(s) ==
    CASE s = "20" -> [ok |-> TRUE, n |-> 20]
      [] s = "12" -> [ok |-> TRUE, n |-> 12]
      [] s = "-4" -> [ok |-> TRUE, n |-> 0 - 4]
      [] OTHER -> [ok |-> FALSE, n |-> 0]

\* int(x): [ok, n]; ok = FALSE when int() raises (TypeError on None,
\* ValueError on a string that is no integer literal)
py_int(x) ==
    CASE x.t = "int" -> [ok |-> TRUE, n |-> x.n]
      [] x.t = "str" -> NumeralValue(x.s)
      [] x.t = "null" -> [ok |-> FALSE, n |-> 0]

\* float(x): the numbers of the model are whole, so float(x) has the value
\* int(x) has on every input used here
py_float(x) ==
    CASE x.t = "int" -> [ok |-> TRUE, n |-> x.n]
      [] x.t = "str" -> NumeralValue(x.s)
      [] x.t = "null" -> [ok |-> FALSE, n |-> 0]

\* datetime.fromisoformat(s): [ok, hour]; the ISO strings of the model
fromisoformat(s) ==
    CASE s = "2024-05-01T08:00:00" -> [ok |-> TRUE, hour |-> 8]
      [] s = "2024-05-01T08:00:10" -> [ok |-> TRUE, hour |-> 8]
      [] s = "2024-05-01T09:00:20" -> [ok |-> TRUE, hour |-> 9]
      [] s = "2024-05-01T17:30:00" -> [ok |-> TRUE, hour |-> 17]
      [] OTHER -> [ok |-> FALSE, hour |-> 0]

\* datetime.now().isoformat() at clock value c
isoformat(c) ==
    CASE c = 0 -> "2024-05-01T08:00:00"
      [] c = 1 -> "2024-05-01T08:00:10"
      [] OTHER -> "2024-05-01T09:00:20"

-----------------------------------------------------------------------------
(* Event store: app/Database/database.py *)

\* dict(event) with event_with_id["id"] = id
WithId(event, id) ==
    [id |-> id,
     intersection_id |-> event.intersection_id,
     timestamp |-> event.timestamp,
     vehicle_count |-> event.vehicle_count,
     avg_speed |-> event.avg_speed,
     queue_len |-> event.queue_len,
     meta |-> event.meta]

\* RecentOf without the clamp max(0, limit)
RecentOf_unclamped(evs, limit) == PySlice(Reverse(evs), limit)

\* get_recent_events over the list value evs
RecentOf(evs, limit) == PySlice(Reverse(evs), Max(0, limit))

get_recent_events(limit) == RecentOf(_EVENTS, limit)

-----------------------------------------------------------------------------
(* Analytics engine: app/Analytics/traffic_analytics.py *)

congestion_threshold == 15
slow_speed_threshold == 20
queue_threshold == 8
change_threshold == 2

RECURSIVE SumSeq(_)
SumSeq(s) == IF s = <<>> THEN 0 ELSE Head(s) + SumSeq(Tail(s))

\* The keys of the defaultdict built by "for event in events", in insertion
\* order: each intersection_id at its first occurrence
RECURSIVE GroupOrder(_, _)
GroupOrder(events, seen) ==
    IF events = <<>> THEN <<>>
    ELSE IF Head(events).intersection_id \in seen
         THEN GroupOrder(Tail(events), seen)
         ELSE <<Head(events).intersection_id>>
              \o GroupOrder(Tail(events), seen \cup {Head(events).intersection_id})

\* intersection_data[iid]: the events of iid, in the order of the window
GroupEvents(events, iid) == SelectSeq(events, LAMBDA e : e.intersection_id = iid)

\* The point rule with the full thresholds taken as strict bounds
_calculate_congestion_level_strict(vehicle_count, avg_speed, queue_len) ==
    LET v == IF vehicle_count > congestion_threshold THEN 2
             ELSE IF 10 * vehicle_count >= 7 * congestion_threshold THEN 1 ELSE 0
        s == IF avg_speed < slow_speed_threshold THEN 2
             ELSE IF 10 * avg_speed <= 15 * slow_speed_threshold THEN 1 ELSE 0
        q == IF queue_len > queue_threshold THEN 2
             ELSE IF 10 * queue_len >= 7 * queue_threshold THEN 1 ELSE 0
        congestion_score == v + s + q
    IN  IF congestion_score >= 4 THEN "high"
        ELSE IF congestion_score >= 2 THEN "moderate"
        ELSE "low"

\* Thresholds scaled by 0.7 and 1.5 are compared in tenths
_calculate_congestion_level(vehicle_count, avg_speed, queue_len) ==
    LET v == IF vehicle_count >= congestion_threshold THEN 2
             ELSE IF 10 * vehicle_count >= 7 * congestion_threshold THEN 1 ELSE 0
        s == IF avg_speed <= slow_speed_threshold THEN 2
             ELSE IF 10 * avg_speed <= 15 * slow_speed_threshold THEN 1 ELSE 0
        q == IF queue_len >= queue_threshold THEN 2
             ELSE IF 10 * queue_len >= 7 * queue_threshold THEN 1 ELSE 0
        congestion_score == v + s + q
    IN  IF congestion_score >= 4 THEN "high"
        ELSE IF congestion_score >= 2 THEN "moderate"
        ELSE "low"

\* statistics.mean of integers is the exact quotient rounded to the nearest
\* double, and the two comparisons of _detect_trend are made on doubles.
\* With at most three values on each side the doubles order as the exact
\* quotients do, except when the exact quotients differ by exactly
\* change_threshold and are thirds: then the rounding of the thirds decides.
\* The counts are taken to be non-negative.

\* The exponent e of p/q as a double: 2^e <= p/q < 2^(e+1), p > 0, q > 0
RECURSIVE FloorLog2(_, _)
FloorLog2(p, q) ==
    IF p >= 2 * q THEN FloorLog2(p, 2 * q) + 1
    ELSE IF p < q THEN FloorLog2(2 * p, q) - 1
    ELSE 0

\* float(p/3), p no multiple of 3, lies above p/3: the binary digits of a
\* third alternate, so the first digit dropped from the 53 kept is 1 exactly
\* when the exponent has the parity below
ThirdRoundsUp(p) ==
    LET e == FloorLog2(p, 3)
    IN  \/ p % 3 = 1 /\ e % 2 = 1
        \/ p % 3 = 2 /\ e % 2 = 0

\* recent_avg > older_avg + change_threshold, for recent_avg = float(a/3)
\* and older_avg = float(b/k).  On the boundary in thirds older_avg + 2 is
\* rounded once more: it falls below recent_avg only when the sum crosses
\* one power of two, float(a/3) was rounded up and float(b/3) down.
mean_exceeds(a, b, k) ==
    IF a * k # 3 * b + 3 * k * change_threshold
    THEN a * k > 3 * b + 3 * k * change_threshold
    ELSE IF a % 3 = 0 \/ b <= 0 THEN FALSE
    ELSE /\ FloorLog2(a, 3) - FloorLog2(b, 3) = 1
         /\ ThirdRoundsUp(a)
         /\ ~ThirdRoundsUp(b)

\* recent_avg < older_avg - change_threshold.  On the boundary in thirds the
\* difference is exact, so it keeps the rounding error of float(b/3), which
\* is the larger one when b/3 has the larger exponent.
mean_falls_short(a, b, k) ==
    IF a * k # 3 * b - 3 * k * change_threshold
    THEN a * k < 3 * b - 3 * k * change_threshold
    ELSE IF a % 3 = 0 \/ a <= 0 THEN FALSE
    ELSE /\ FloorLog2(b, 3) > FloorLog2(a, 3)
         /\ ThirdRoundsUp(b)

_detect_trend(values) ==
    IF Len(values) < 4 THEN "stable"
    ELSE
        LET recent == SubSeq(values, 1, 3)
            older_values == IF Len(values) >= 6 THEN SubSeq(values, 4, 6)
                            ELSE SubSeq(values, 4, Len(values))
            k == Len(older_values)
        IN  IF older_values = <<>> THEN "stable"
            ELSE IF mean_exceeds(SumSeq(recent), SumSeq(older_values), k)
                 THEN "increasing"
            ELSE IF mean_falls_short(SumSeq(recent), SumSeq(older_values), k)
                 THEN "decreasing"
            ELSE "stable"

\* The recommendation texts are named by their rule
_generate_recommendations(congestion_level, trend, latest_event) ==
    LET r1 == IF congestion_level = "high"
              THEN <<"extend_green", "send_alerts">>
                   \o (IF latest_event.queue_len > 10 THEN <<"deploy_personnel">> ELSE <<>>)
              ELSE IF congestion_level = "moderate" THEN <<"monitor">> ELSE <<>>
        r2 == IF trend = "increasing" THEN <<"rising">>
              ELSE IF trend = "decreasing" THEN <<"clearing">> ELSE <<>>
        r3 == IF latest_event.avg_speed < 15 THEN <<"very_slow">> ELSE <<>>
        recommendations == r1 \o r2 \o r3
    IN  IF recommendations = <<>> THEN <<"flowing_normally">> ELSE recommendations

\* The rounded averages and the efficiency score (floating point, rounded to
\* one decimal) are not part of the record: no property below reads them.
_analyze_intersection(intersection_id, events) ==
    LET latest == events[1]
        window == Take(events, 10)
        vehicle_counts == [i \in 1..Len(window) |-> window[i].vehicle_count]
        congestion_level ==
            _calculate_congestion_level(latest.vehicle_count, latest.avg_speed,
                                        latest.queue_len)
        trend == _detect_trend(vehicle_counts)
    IN  [intersection_id |-> intersection_id,
         current_stats |-> [vehicle_count |-> latest.vehicle_count,
                            avg_speed |-> latest.avg_speed,
                            queue_length |-> latest.queue_len,
                            timestamp |-> latest.timestamp],
         congestion_level |-> congestion_level,
         trend |-> trend,
         recommendations |-> _generate_recommendations(congestion_level, trend, latest)]

\* The network status with the rates 0.6 and 0.3 taken as strict bounds
_determine_network_status_strict(congested_count, total_count) ==
    IF total_count = 0 THEN "unknown"
    ELSE IF 10 * congested_count > 6 * total_count THEN "heavy"
    ELSE IF 10 * congested_count > 3 * total_count THEN "moderate"
    ELSE "light"

\* congested_count / total_count >= 0.6 and >= 0.3: the quotient and the
\* literal are both the nearest double of their exact value, so they compare
\* as the exact values do
_determine_network_status(congested_count, total_count) ==
    IF total_count = 0 THEN "unknown"
    ELSE IF 10 * congested_count >= 6 * total_count THEN "heavy"
    ELSE IF 10 * congested_count >= 3 * total_count THEN "moderate"
    ELSE "light"

Alert(intersection_id, severity, latest_event) ==
    [type |-> "congestion",
     intersection_id |-> intersection_id,
     severity |-> severity,
     details |-> [vehicle_count |-> latest_event.vehicle_count,
                  queue_length |-> latest_event.queue_len,
                  avg_speed |-> latest_event.avg_speed]]

\* The loop with the branch for a moderate level left out
RECURSIVE AlertsOf_high_only(_, _)
AlertsOf_high_only(order, events) ==
    IF order = <<>> THEN <<>>
    ELSE
        LET iid == Head(order)
            evs == GroupEvents(events, iid)
            lvl == _analyze_intersection(iid, evs).congestion_level
        IN  (IF lvl = "high" THEN <<Alert(iid, lvl, evs[1])>> ELSE <<>>)
            \o AlertsOf_high_only(Tail(order), events)

\* The loop over intersection_data.items() appending to analysis["alerts"]
RECURSIVE AlertsOf(_, _)
AlertsOf(order, events) ==
    IF order = <<>> THEN <<>>
    ELSE
        LET iid == Head(order)
            evs == GroupEvents(events, iid)
            lvl == _analyze_intersection(iid, evs).congestion_level
        IN  (IF lvl \in {"high", "moderate"} THEN <<Alert(iid, lvl, evs[1])>> ELSE <<>>)
            \o AlertsOf(Tail(order), events)

\* The analysis without the early return for an empty window
AnalysisOf_unguarded(events, t) ==
    LET order == GroupOrder(events, {})
        ids == {order[i] : i \in 1..Len(order)}
        inter == [iid \in ids |-> _analyze_intersection(iid, GroupEvents(events, iid))]
        total_intersections == Len(order)
        congested_count == Cardinality({iid \in ids : inter[iid].congestion_level = "high"})
    IN  [status |-> "ok",
         timestamp |-> isoformat(t),
         intersections |-> inter,
         alerts |-> AlertsOf(order, events),
         overall_stats |->
             [total_intersections |-> total_intersections,
              congested_intersections |-> congested_count,
              congestion_rate |-> IF total_intersections > 0
                                  THEN <<congested_count, total_intersections>>
                                  ELSE <<0, 1>>,
              network_status |->
                  _determine_network_status(congested_count, total_intersections)]]

\* analyze_current_conditions on the window `events`, read at clock value t.
\* congestion_rate is the fraction <<congested, total>>.
AnalysisOf(events, t) ==
    IF events = <<>> THEN [status |-> "no_data", intersections |-> <<>>]
    ELSE
        LET order == GroupOrder(events, {})
            ids == {order[i] : i \in 1..Len(order)}
            inter == [iid \in ids |-> _analyze_intersection(iid, GroupEvents(events, iid))]
            total_intersections == Len(order)
            congested_count == Cardinality({iid \in ids : inter[iid].congestion_level = "high"})
        IN  [status |-> "ok",
             timestamp |-> isoformat(t),
             intersections |-> inter,
             alerts |-> AlertsOf(order, events),
             overall_stats |->
                 [total_intersections |-> total_intersections,
                  congested_intersections |-> congested_count,
                  congestion_rate |-> IF total_intersections > 0
                                      THEN <<congested_count, total_intersections>>
                                      ELSE <<0, 1>>,
                  network_status |->
                      _determine_network_status(congested_count, total_intersections)]]

analyze_current_conditions(limit) == AnalysisOf(get_recent_events(limit), now)

-----------------------------------------------------------------------------
(* Requests of the model *)

ISO_MORNING == "2024-05-01T08:00:00"
ISO_EVENING == "2024-05-01T17:30:00"

\* Bodies POSTed to /api/ingest
P_low ==
    [intersection_id |-> JStr("INT001"), timestamp |-> JStr(ISO_MORNING),
     vehicle_count |-> JInt(4), avg_speed |-> JInt(45), queue_len |-> JInt(1)]
P_high ==
    [intersection_id |-> JStr("INT002"), timestamp |-> JStr(ISO_EVENING),
     vehicle_count |-> JStr("20"), avg_speed |-> JStr("12"), queue_len |-> JInt(9),
     meta |-> {<<"highway", "NH44">>}]
P_negative ==
    [intersection_id |-> JStr("INT001"), timestamp |-> JStr(ISO_MORNING),
     vehicle_count |-> JInt(0 - 5), avg_speed |-> JStr("-4"), queue_len |-> JInt(0 - 1)]
P_no_queue ==
    [intersection_id |-> JStr("INT001"), timestamp |-> JStr(ISO_MORNING),
     vehicle_count |-> JInt(4), avg_speed |-> JInt(45)]
P_no_time_no_queue ==
    [intersection_id |-> JStr("INT001"),
     vehicle_count |-> JStr("abc"), avg_speed |-> JInt(45)]
P_bad_count ==
    [intersection_id |-> JStr("INT001"), timestamp |-> JStr(ISO_MORNING),
     vehicle_count |-> JStr("abc"), avg_speed |-> JInt(45), queue_len |-> JInt(1)]
P_bad_time ==
    [intersection_id |-> JInt(7), timestamp |-> JStr("yesterday"),
     vehicle_count |-> JInt(4), avg_speed |-> JNull, queue_len |-> JInt(1)]

Payloads ==
    {P_low, P_high, P_negative, P_no_queue, P_no_time_no_queue, P_bad_count,
     P_bad_time}

\* Values of ?limit= on /api/events
Limits == {0 - 1, 0, 1, 20}

\* Arguments of generate_test_event: with and without an intersection_id
TestData == {[intersection_id |-> "INT002"], [source |-> "button"]}

\* A draw of random.randint(5, 25), random.randint(15, 60), random.randint(0, 15)
TestReadings == {<<25, 15, 15>>}

DictGet(d, k, default) == IF k \in DOMAIN d THEN d[k] ELSE default

-----------------------------------------------------------------------------
(* Socket.IO delivery *)

\* emit(name, payload) inside a handler: to the requesting session only
\* socketio.emit(name, payload, room='traffic_updates'): to the room's members
Msg(name, to, payload) == [name |-> name, to |-> to, payload |-> payload]

NoOp == [op |-> "none", sid |-> "", arg |-> <<>>, ret |-> <<>>]

\* A thread's locals before its first call
NoEvent ==
    [id |-> 0, intersection_id |-> "", timestamp |-> "", vehicle_count |-> 0,
     avg_speed |-> 0, queue_len |-> 0, meta |-> {}]
NoLocal == [event_with_id |-> NoEvent, tmp |-> 0, limit |-> 0, ret |-> <<>>]

-----------------------------------------------------------------------------
(* Store operations as one step each (the lock serialises them) *)

\* add_event(event): the store after the call; the returned dict is the last
add_event(event) ==
    /\ _EVENTS' = Append(_EVENTS, WithId(event, _NEXT_ID))
    /\ _NEXT_ID' = _NEXT_ID + 1

clear_events ==
    /\ _EVENTS' = <<>>
    /\ _NEXT_ID' = 1
    /\ emitted' = <<>>
    /\ last' = [op |-> "clear_events", sid |-> "", arg |-> <<>>, ret |-> <<>>]
    /\ UNCHANGED <<_LOCK, socketio_instance, update_timers, connected, room, timers,
                   now, pc, local, assigned, caller_refs, serving>>

-----------------------------------------------------------------------------
(* Hub: app/WebSocket/events.py *)

\* send_update passing every alert of the analysis on as critical
critical_alerts_all(analysis) ==
    IF analysis.status = "ok" THEN analysis.alerts ELSE <<>>

\* send_update's critical_alerts: analysis.get('alerts') is None for a
\* 'no_data' analysis, else the alerts of severity 'high' in their order
critical_alerts(analysis) ==
    IF analysis.status = "ok"
    THEN SelectSeq(analysis.alerts, LAMBDA a : a.severity = "high")
    ELSE <<>>

\* send_update emitting without room=: every open session receives
SendUpdateMsgs_broadcast(evs, to) ==
    IF socketio_instance
    THEN <<Msg("traffic_update", connected,
               [type |-> "periodic_update",
                analysis |-> AnalysisOf(RecentOf(evs, 100), now),
                recent_events |-> RecentOf(evs, 10), timestamp |-> isoformat(now)])>>
    ELSE <<>>

\* send_update's emits, evaluated on store value evs with the room members to
SendUpdateMsgs(evs, to) ==
    IF socketio_instance
    THEN LET analysis == AnalysisOf(RecentOf(evs, 100), now)
             recent_events == RecentOf(evs, 10)
         IN  <<Msg("traffic_update", to,
                   [type |-> "periodic_update", analysis |-> analysis,
                    recent_events |-> recent_events, timestamp |-> isoformat(now)])>>
             \o (IF critical_alerts(analysis) # <<>>
                 THEN <<Msg("critical_alert", to,
                            [alerts |-> critical_alerts(analysis),
                             timestamp |-> isoformat(now)])>>
                 ELSE <<>>)
    ELSE <<>>

\* broadcast_new_event with the analysis taken before the event was appended
BroadcastNewEventMsgs_stale(event, evs, to) ==
    IF socketio_instance
    THEN <<Msg("traffic_update", to,
               [type |-> "new_event", event |-> event,
                analysis |-> AnalysisOf(RecentOf(SubSeq(evs, 1, Len(evs) - 1), 50), now),
                timestamp |-> isoformat(now)])>>
    ELSE <<>>

\* broadcast_new_event(event)'s emits on store value evs
BroadcastNewEventMsgs(event, evs, to) ==
    IF socketio_instance
    THEN <<Msg("traffic_update", to,
               [type |-> "new_event", event |-> event,
                analysis |-> AnalysisOf(RecentOf(evs, 50), now),
                timestamp |-> isoformat(now)])>>
    ELSE <<>>

on_connect(sid) ==
    /\ sid \notin connected
    /\ connected' = connected \cup {sid}
    /\ emitted' = <<Msg("initial_data", {sid},
                        [events |-> get_recent_events(20),
                         analysis |-> analyze_current_conditions(50),
                         timestamp |-> isoformat(now)])>>
    /\ last' = [op |-> "connect", sid |-> sid, arg |-> <<>>, ret |-> <<>>]
    /\ UNCHANGED <<_EVENTS, _NEXT_ID, _LOCK, socketio_instance, update_timers, room,
                   timers, now, pc, local, assigned, caller_refs, serving>>

\* The handler deleting the session's timer without the membership test:
\* del update_timers[request.sid] raises KeyError for a session without one
on_disconnect_unchecked(sid) ==
    /\ update_timers' = update_timers \ {sid}
    /\ connected' = connected \ {sid}
    /\ room' = room \ {sid}
    /\ emitted' = <<>>
    /\ last' = [op |-> "disconnect", sid |-> sid,
                arg |-> IF sid \in connected THEN "first" ELSE "repeated",
                ret |-> IF sid \in update_timers THEN "ok" ELSE "KeyError"]
    /\ UNCHANGED <<_EVENTS, _NEXT_ID, _LOCK, socketio_instance, timers, now, pc,
                   local, assigned, caller_refs, serving>>

\* The Socket.IO server takes a closed session out of every room.  The
\* handler has no precondition: it may run again for a session that is
\* already gone (arg tells the two cases apart); it returns normally (ret).
on_disconnect(sid) ==
    /\ update_timers' = IF sid \in update_timers THEN update_timers \ {sid}
                        ELSE update_timers
    /\ connected' = connected \ {sid}
    /\ room' = room \ {sid}
    /\ emitted' = <<>>
    /\ last' = [op |-> "disconnect", sid |-> sid,
                arg |-> IF sid \in connected THEN "first" ELSE "repeated",
                ret |-> "ok"]
    /\ UNCHANGED <<_EVENTS, _NEXT_ID, _LOCK, socketio_instance, timers, now, pc,
                   local, assigned, caller_refs, serving>>

\* on_subscribe_updates confirming before it starts the periodic updates
on_subscribe_updates_confirm_first(sid) ==
    /\ sid \in connected
    /\ timers < MaxTimers
    /\ room' = room \cup {sid}
    /\ timers' = timers + 1
    /\ emitted' = <<Msg("subscription_confirmed", {sid},
                        [status |-> "subscribed", update_interval |-> 10])>>
                  \o SendUpdateMsgs(_EVENTS, room')
    /\ last' = [op |-> "subscribe_updates", sid |-> sid, arg |-> <<>>, ret |-> <<>>]
    /\ UNCHANGED <<_EVENTS, _NEXT_ID, _LOCK, socketio_instance, update_timers,
                   connected, now, pc, local, assigned, caller_refs, serving>>

\* join_room, start_periodic_updates() (one send_update now, which starts a
\* Timer for the next), then the confirmation
on_subscribe_updates(sid) ==
    /\ sid \in connected
    /\ timers < MaxTimers
    /\ room' = room \cup {sid}
    /\ timers' = timers + 1
    /\ emitted' = SendUpdateMsgs(_EVENTS, room')
                  \o <<Msg("subscription_confirmed", {sid},
                           [status |-> "subscribed", update_interval |-> 10])>>
    /\ last' = [op |-> "subscribe_updates", sid |-> sid, arg |-> <<>>, ret |-> <<>>]
    /\ UNCHANGED <<_EVENTS, _NEXT_ID, _LOCK, socketio_instance, update_timers,
                   connected, now, pc, local, assigned, caller_refs, serving>>

on_unsubscribe_updates(sid) ==
    /\ sid \in connected
    /\ room' = room \ {sid}
    /\ emitted' = <<Msg("subscription_confirmed", {sid}, [status |-> "unsubscribed"])>>
    /\ last' = [op |-> "unsubscribe_updates", sid |-> sid, arg |-> <<>>, ret |-> <<>>]
    /\ UNCHANGED <<_EVENTS, _NEXT_ID, _LOCK, socketio_instance, update_timers,
                   connected, timers, now, pc, local, assigned, caller_refs, serving>>

\* send_update without the Timer for the next run
send_update_once ==
    /\ timers > 0
    /\ timers' = timers - 1
    /\ emitted' = SendUpdateMsgs(_EVENTS, room)
    /\ last' = [op |-> "send_update", sid |-> "", arg |-> <<>>, ret |-> <<>>]
    /\ UNCHANGED <<_EVENTS, _NEXT_ID, _LOCK, socketio_instance, update_timers,
                   connected, room, now, pc, local, assigned, caller_refs, serving>>

\* A pending Timer(10.0, send_update) fires: send_update runs and starts the
\* next Timer
send_update ==
    /\ timers > 0
    /\ timers' = (timers - 1) + 1
    /\ emitted' = SendUpdateMsgs(_EVENTS, room)
    /\ last' = [op |-> "send_update", sid |-> "", arg |-> <<>>, ret |-> <<>>]
    /\ UNCHANGED <<_EVENTS, _NEXT_ID, _LOCK, socketio_instance, update_timers,
                   connected, room, now, pc, local, assigned, caller_refs, serving>>

on_generate_test_event(sid, data, reading) ==
    /\ sid \in connected
    /\ Len(_EVENTS) < MaxEvents
    /\ LET test_event ==
               [intersection_id |-> DictGet(data, "intersection_id", "TEST001"),
                timestamp |-> isoformat(now),
                vehicle_count |-> reading[1],
                avg_speed |-> reading[2],
                queue_len |-> reading[3],
                meta |-> {<<"source", "websocket_test">>}]
       IN  /\ add_event(test_event)
           /\ LET stored_event == _EVENTS'[Len(_EVENTS')]
              IN  emitted' =
                      <<Msg("traffic_update", room,
                            [type |-> "new_event", event |-> stored_event,
                             timestamp |-> isoformat(now)]),
                        Msg("test_event_created", {sid},
                            [event |-> stored_event,
                             message |-> "Test event generated successfully"])>>
    /\ last' = [op |-> "generate_test_event", sid |-> sid, arg |-> data, ret |-> <<>>]
    /\ UNCHANGED <<_LOCK, socketio_instance, update_timers, connected, room, timers,
                   now, pc, local, assigned, caller_refs, serving>>

-----------------------------------------------------------------------------
(* Ingestion: app/Blueprints/Ingestion/ingestion.py *)

required == <<"intersection_id", "timestamp", "vehicle_count", "avg_speed", "queue_len">>

\* _validate_event reporting the first missing field only
_validate_event_first_missing(payload) ==
    LET missing == SelectSeq(required, LAMBDA k : k \notin DOMAIN payload)
    IN  IF missing # <<>>
        THEN [ok |-> FALSE,
              err |-> [kind |-> "Missing fields", fields |-> <<missing[1]>>]]
        ELSE IF /\ fromisoformat(py_str(payload.timestamp)).ok
                /\ py_int(payload.vehicle_count).ok
                /\ py_float(payload.avg_speed).ok
                /\ py_int(payload.queue_len).ok
             THEN [ok |-> TRUE, err |-> [kind |-> "None", fields |-> <<>>]]
             ELSE [ok |-> FALSE,
                   err |-> [kind |-> "Invalid field types/format", fields |-> <<>>]]

\* [ok, err]; err is the message: "Missing fields: " with the fields joined,
\* or "Invalid field types/format: " with the exception's text
_validate_event(payload) ==
    LET missing == SelectSeq(required, LAMBDA k : k \notin DOMAIN payload)
    IN  IF missing # <<>>
        THEN [ok |-> FALSE, err |-> [kind |-> "Missing fields", fields |-> missing]]
        ELSE IF /\ fromisoformat(py_str(payload.timestamp)).ok
                /\ py_int(payload.vehicle_count).ok
                /\ py_float(payload.avg_speed).ok
                /\ py_int(payload.queue_len).ok
             THEN [ok |-> TRUE, err |-> [kind |-> "None", fields |-> <<>>]]
             ELSE [ok |-> FALSE,
                   err |-> [kind |-> "Invalid field types/format", fields |-> <<>>]]

ingest(data) ==
    LET v == _validate_event(data)
    IN  IF ~v.ok
        THEN /\ last' = [op |-> "ingest", sid |-> "", arg |-> data,
                         ret |-> [code |-> 400, status |-> "error", error |-> v.err]]
             /\ emitted' = <<>>
             /\ UNCHANGED <<_EVENTS, _NEXT_ID>>
        ELSE /\ Len(_EVENTS) < MaxEvents
             /\ LET event == [intersection_id |-> py_str(data.intersection_id),
                              timestamp |-> py_str(data.timestamp),
                              vehicle_count |-> py_int(data.vehicle_count).n,
                              avg_speed |-> py_float(data.avg_speed).n,
                              queue_len |-> py_int(data.queue_len).n,
                              meta |-> DictGet(data, "meta", {})]
                IN  /\ add_event(event)
                    /\ LET stored == _EVENTS'[Len(_EVENTS')]
                       IN  /\ emitted' = BroadcastNewEventMsgs(stored, _EVENTS', room)
                           /\ last' = [op |-> "ingest", sid |-> "", arg |-> data,
                                       ret |-> [code |-> 201, status |-> "ok",
                                                id |-> stored.id]]

ingest_request(data) ==
    /\ ingest(data)
    /\ UNCHANGED <<_LOCK, socketio_instance, update_timers, connected, room, timers,
                   now, pc, local, assigned, caller_refs, serving>>

list_events(limit) ==
    /\ last' = [op |-> "list_events", sid |-> "", arg |-> limit,
                ret |-> get_recent_events(limit)]
    /\ emitted' = <<>>
    /\ UNCHANGED <<_EVENTS, _NEXT_ID, _LOCK, socketio_instance, update_timers,
                   connected, room, timers, now, pc, local, assigned, caller_refs, serving>>

\* Time passes between two reads of datetime.now()
AdvanceClock ==
    /\ now + 1 \in ClockValues
    /\ now' = now + 1
    /\ UNCHANGED <<_EVENTS, _NEXT_ID, _LOCK, socketio_instance, update_timers,
                   connected, room, timers, emitted, last, pc, local, assigned,
                   caller_refs, serving>>

-----------------------------------------------------------------------------
(* The service after manage.py has built it *)

Init ==
    /\ _EVENTS = <<>>
    /\ _NEXT_ID = 1
    /\ _LOCK = "free"
    /\ socketio_instance = TRUE
    /\ update_timers = {}
    /\ connected = {}
    /\ room = {}
    /\ timers = 0
    /\ now = 0
    /\ emitted = <<>>
    /\ last = NoOp
    /\ pc = [t \in Threads |-> "idle"]
    /\ local = [t \in Threads |-> NoLocal]
    /\ assigned = {}
    /\ caller_refs = {}
    /\ serving = TRUE

Next ==
    \/ \E sid \in Sessions : on_connect(sid)
    \/ \E sid \in Sessions : on_disconnect(sid)
    \/ \E sid \in Sessions : on_subscribe_updates(sid)
    \/ \E sid \in Sessions : on_unsubscribe_updates(sid)
    \/ \E sid \in Sessions, data \in TestData, reading \in TestReadings :
           on_generate_test_event(sid, data, reading)
    \/ send_update
    \/ \E data \in Payloads : ingest_request(data)
    \/ \E limit \in Limits : list_events(limit)
    \/ clear_events
    \/ AdvanceClock

Spec == Init /\ [][Next]_vars

-----------------------------------------------------------------------------
(* Properties of the service *)

StoredIds == {_EVENTS[i].id : i \in 1..Len(_EVENTS)}

\* C1: get_recent_events(limit) returns exactly min(max(limit, 0), count)
\* events, they are stored events carrying the highest ids, in strictly
\* decreasing order of id; a limit <= 0 gives the empty list.
C1_RecentNewestFirst ==
    last.op = "list_events" =>
        LET r == last.ret
            limit == last.arg
            returned == {r[i].id : i \in 1..Len(r)}
        IN  /\ Len(r) = Min(Max(limit, 0), Len(_EVENTS))
            /\ \A i \in 1..Len(r) : \E j \in 1..Len(_EVENTS) : r[i] = _EVENTS[j]
            /\ \A i, j \in 1..Len(r) : i < j => r[i].id > r[j].id
            /\ \A a \in returned, b \in StoredIds \ returned : a > b
            /\ (limit <= 0 => r = <<>>)

\* C1 witness: a limit below the number of stored events cuts the list
C1_Witness ==
    /\ last.op = "list_events"
    /\ last.arg = 1
    /\ Len(_EVENTS) = 2
    /\ Len(last.ret) = 1

\* C5: at most one send_update timer is ever pending.
C5_AtMostOneTick == timers <= 1

PeriodicUpdatesTo(s) ==
    {i \in 1..Len(emitted) :
        /\ emitted[i].name = "traffic_update"
        /\ emitted[i].payload.type = "periodic_update"
        /\ s \in emitted[i].to}

\* C6: a run of send_update (from a timer, or the one subscribe starts)
\* delivers exactly one periodic_update to each member of the room and none
\* to the others; no traffic_update or critical_alert reaches a session
\* outside the room, and a session that has just connected, unsubscribed or
\* disconnected is outside it.
C6_TickReachesExactlyTheRoom ==
    /\ last.op \in {"send_update", "subscribe_updates"} =>
           \A s \in Sessions :
               Cardinality(PeriodicUpdatesTo(s)) = IF s \in room THEN 1 ELSE 0
    /\ \A i \in 1..Len(emitted) :
           emitted[i].name \in {"traffic_update", "critical_alert"} =>
               emitted[i].to \subseteq room
    /\ last.op \in {"connect", "unsubscribe_updates", "disconnect"} =>
           last.sid \notin room
    /\ last.op = "subscribe_updates" => last.sid \in room

\* C6 witness: a timer fires while one session is subscribed and another is
\* connected but not subscribed
C6_Witness ==
    /\ last.op = "send_update"
    /\ connected = Sessions
    /\ Cardinality(room) = 1
    /\ \E s \in room : Cardinality(PeriodicUpdatesTo(s)) = 1

\* What the ingestion contract calls an invalid body
MissingOf(payload) == {required[i] : i \in 1..Len(required)} \ DOMAIN payload

FailsValidation(payload) ==
    \/ MissingOf(payload) # {}
    \/ ~fromisoformat(py_str(payload.timestamp)).ok
    \/ ~py_int(payload.vehicle_count).ok
    \/ ~py_float(payload.avg_speed).ok
    \/ ~py_int(payload.queue_len).ok

NamedIn(err) == {err.fields[i] : i \in 1..Len(err.fields)}

\* C7: an ingest of a body that fails validation answers with an error whose
\* message names every missing field, leaves the store and the id counter
\* as they were, and emits nothing.
C7_InvalidIngestRejected ==
    [][(last'.op = "ingest" /\ FailsValidation(last'.arg)) =>
          /\ last'.ret.status = "error"
          /\ last'.ret.code = 400
          /\ MissingOf(last'.arg) \subseteq NamedIn(last'.ret.error)
          /\ _EVENTS' = _EVENTS
          /\ _NEXT_ID' = _NEXT_ID
          /\ emitted' = <<>>]_vars

\* C7 witness: a body without timestamp and queue_len was refused while a
\* session is subscribed and the store holds events
C7_Witness ==
    /\ last.op = "ingest"
    /\ last.arg = P_no_time_no_queue
    /\ last.ret.status = "error"
    /\ room # {}
    /\ Len(_EVENTS) > 0

C9_TestEventBroadcastLikeIngest ==
    last.op = "generate_test_event" =>
        /\ Len(emitted) = 2
        /\ emitted[1].name = "traffic_update"
        /\ emitted[1].to = room
        /\ emitted[1].payload.type = "new_event"
        /\ emitted[1].payload.event = _EVENTS[Len(_EVENTS)]
        /\ "analysis" \in DOMAIN emitted[1].payload
        /\ \E t \in ClockValues :
               emitted[1].payload.analysis = AnalysisOf(RecentOf(_EVENTS, 50), t)
        /\ emitted[2].name = "test_event_created"
        /\ emitted[2].to = {last.sid}

\* C10: every stored event has vehicle_count, avg_speed and queue_len >= 0.
C10_ReadingsNonNegative ==
    \A i \in 1..Len(_EVENTS) :
        /\ _EVENTS[i].vehicle_count >= 0
        /\ _EVENTS[i].avg_speed >= 0
        /\ _EVENTS[i].queue_len >= 0

\* C20: after a disconnect the session is not in the broadcast group and
\* has no timer in the registry, and the handler returns normally; a
\* disconnect of a session that is already gone changes neither the
\* broadcast group nor the timer registry nor the store.
C20_DisconnectIdempotent ==
    [][last'.op = "disconnect" =>
          /\ last'.sid \notin room'
          /\ last'.sid \notin update_timers'
          /\ last'.sid \notin connected'
          /\ last'.ret = "ok"
          /\ _EVENTS' = _EVENTS /\ _NEXT_ID' = _NEXT_ID
          /\ last'.sid \notin connected =>
                 /\ room' = room
                 /\ update_timers' = update_timers
                 /\ connected' = connected
                 /\ timers' = timers]_vars

\* A repeated disconnect while the other session is subscribed, a tick is
\* pending and the store holds an event
C20_Witness ==
    /\ last.op = "disconnect"
    /\ last.arg = "repeated"
    /\ room # {}
    /\ timers > 0
    /\ _EVENTS # <<>>

-----------------------------------------------------------------------------
(* The store called from several threads: database.py step by step.       *)
(* The callers are the ingestion endpoint, the test-event handler and the   *)
(* traffic simulation; each passes an event that names it.                  *)

ThreadSource(t) ==
    CASE t = "t1" -> "ingestion"
      [] t = "t2" -> "websocket_test"
      [] OTHER -> "live_simulation"

ThreadEvent(t) ==
    [intersection_id |-> "INT001", timestamp |-> ISO_MORNING, vehicle_count |-> 12,
     avg_speed |-> 25, queue_len |-> 6, meta |-> {<<"source", ThreadSource(t)>>}]

store_hub_vars == <<socketio_instance, update_timers, connected, room, timers, now,
                    emitted, last, caller_refs, serving>>

\* with _LOCK: entered without waiting for the lock to be free
add_event_acquire_unlocked(t) ==
    /\ pc[t] = "idle"
    /\ Len(_EVENTS) < MaxEvents
    /\ _LOCK' = t
    /\ pc' = [pc EXCEPT ![t] = "add_set_id"]
    /\ UNCHANGED <<_EVENTS, _NEXT_ID, local, assigned>>
    /\ UNCHANGED store_hub_vars

\* add_event called; with _LOCK: blocks until the lock is free
add_event_acquire(t) ==
    /\ pc[t] = "idle"
    /\ Len(_EVENTS) < MaxEvents
    /\ _LOCK = "free"
    /\ _LOCK' = t
    /\ pc' = [pc EXCEPT ![t] = "add_set_id"]
    /\ UNCHANGED <<_EVENTS, _NEXT_ID, local, assigned>>
    /\ UNCHANGED store_hub_vars

\* event_with_id = dict(event); event_with_id["id"] = _NEXT_ID
add_event_set_id(t) ==
    /\ pc[t] = "add_set_id"
    /\ local' = [local EXCEPT ![t].event_with_id = WithId(ThreadEvent(t), _NEXT_ID)]
    /\ assigned' = assigned \cup {_NEXT_ID}
    /\ pc' = [pc EXCEPT ![t] = "add_load_next"]
    /\ UNCHANGED <<_EVENTS, _NEXT_ID, _LOCK>>
    /\ UNCHANGED store_hub_vars

\* _NEXT_ID += 1, the read
add_event_load_next(t) ==
    /\ pc[t] = "add_load_next"
    /\ local' = [local EXCEPT ![t].tmp = _NEXT_ID]
    /\ pc' = [pc EXCEPT ![t] = "add_store_next"]
    /\ UNCHANGED <<_EVENTS, _NEXT_ID, _LOCK, assigned>>
    /\ UNCHANGED store_hub_vars

\* The counter written back without the increment
add_event_store_next_same(t) ==
    /\ pc[t] = "add_store_next"
    /\ _NEXT_ID' = local[t].tmp
    /\ pc' = [pc EXCEPT ![t] = "add_append"]
    /\ UNCHANGED <<_EVENTS, _LOCK, local, assigned>>
    /\ UNCHANGED store_hub_vars

\* _NEXT_ID += 1, the write
add_event_store_next(t) ==
    /\ pc[t] = "add_store_next"
    /\ _NEXT_ID' = local[t].tmp + 1
    /\ pc' = [pc EXCEPT ![t] = "add_append"]
    /\ UNCHANGED <<_EVENTS, _LOCK, local, assigned>>
    /\ UNCHANGED store_hub_vars

\* _EVENTS.append(event_with_id)
add_event_append(t) ==
    /\ pc[t] = "add_append"
    /\ _EVENTS' = Append(_EVENTS, local[t].event_with_id)
    /\ pc' = [pc EXCEPT ![t] = "add_return"]
    /\ UNCHANGED <<_NEXT_ID, _LOCK, local, assigned>>
    /\ UNCHANGED store_hub_vars

\* return event_with_id; the with block releases the lock and the frame's
\* locals are gone
add_event_return(t) ==
    /\ pc[t] = "add_return"
    /\ _LOCK' = "free"
    /\ local' = [local EXCEPT ![t] = NoLocal]
    /\ pc' = [pc EXCEPT ![t] = "idle"]
    /\ UNCHANGED <<_EVENTS, _NEXT_ID, assigned>>
    /\ UNCHANGED store_hub_vars

clear_events_acquire(t) ==
    /\ pc[t] = "idle"
    /\ _LOCK = "free"
    /\ _LOCK' = t
    /\ pc' = [pc EXCEPT ![t] = "clear_rebind"]
    /\ UNCHANGED <<_EVENTS, _NEXT_ID, local, assigned>>
    /\ UNCHANGED store_hub_vars

\* _EVENTS = []
clear_events_rebind(t) ==
    /\ pc[t] = "clear_rebind"
    /\ _EVENTS' = <<>>
    /\ pc' = [pc EXCEPT ![t] = "clear_reset_id"]
    /\ UNCHANGED <<_NEXT_ID, _LOCK, local, assigned>>
    /\ UNCHANGED store_hub_vars

\* clear_events leaving the counter where it was
clear_events_keep_id(t) ==
    /\ pc[t] = "clear_reset_id"
    /\ _LOCK' = "free"
    /\ pc' = [pc EXCEPT ![t] = "idle"]
    /\ UNCHANGED <<_EVENTS, _NEXT_ID, local, assigned>>
    /\ UNCHANGED store_hub_vars

\* _NEXT_ID = 1; the with block releases the lock
clear_events_reset_id(t) ==
    /\ pc[t] = "clear_reset_id"
    /\ _NEXT_ID' = 1
    /\ _LOCK' = "free"
    /\ pc' = [pc EXCEPT ![t] = "idle"]
    /\ UNCHANGED <<_EVENTS, local, assigned>>
    /\ UNCHANGED store_hub_vars

get_recent_events_acquire(t, limit) ==
    /\ pc[t] = "idle"
    /\ _LOCK = "free"
    /\ _LOCK' = t
    /\ local' = [local EXCEPT ![t].limit = limit]
    /\ pc' = [pc EXCEPT ![t] = "get_copy"]
    /\ UNCHANGED <<_EVENTS, _NEXT_ID, assigned>>
    /\ UNCHANGED store_hub_vars

\* list(reversed(_EVENTS))[: max(0, int(limit))], built under the lock
get_recent_events_copy(t) ==
    /\ pc[t] = "get_copy"
    /\ local' = [local EXCEPT ![t].ret = get_recent_events(local[t].limit)]
    /\ pc' = [pc EXCEPT ![t] = "get_return"]
    /\ UNCHANGED <<_EVENTS, _NEXT_ID, _LOCK, assigned>>
    /\ UNCHANGED store_hub_vars

\* return: the with block releases the lock and the frame's locals are gone
get_recent_events_return(t) ==
    /\ pc[t] = "get_return"
    /\ _LOCK' = "free"
    /\ local' = [local EXCEPT ![t] = NoLocal]
    /\ pc' = [pc EXCEPT ![t] = "idle"]
    /\ UNCHANGED <<_EVENTS, _NEXT_ID, assigned>>
    /\ UNCHANGED store_hub_vars

NextStore ==
    \/ \E t \in Threads : add_event_acquire(t)
    \/ \E t \in Threads : add_event_set_id(t)
    \/ \E t \in Threads : add_event_load_next(t)
    \/ \E t \in Threads : add_event_store_next(t)
    \/ \E t \in Threads : add_event_append(t)
    \/ \E t \in Threads : add_event_return(t)
    \/ \E t \in Threads : clear_events_acquire(t)
    \/ \E t \in Threads : clear_events_rebind(t)
    \/ \E t \in Threads : clear_events_reset_id(t)
    \/ \E t \in Threads, limit \in {1, 20} : get_recent_events_acquire(t, limit)
    \/ \E t \in Threads : get_recent_events_copy(t)
    \/ \E t \in Threads : get_recent_events_return(t)

SpecStore == Init /\ [][NextStore]_vars

\* The step of thread t that assigns an id
AssignsId(t) == pc[t] = "add_set_id" /\ pc'[t] = "add_load_next"

\* C2: every id add_event assigns is greater than every id assigned before
\* it, over any sequence of add_event, get_recent_events and clear_events.
C2_IdsNeverReused ==
    [][\A t \in Threads :
          AssignsId(t) => \A a \in assigned : a < local'[t].event_with_id.id]_vars

\* C2 as amended: every id add_event assigns is greater than the id of every
\* event the store holds at that moment, which are the ids assigned since
\* the last clear_events (clear_events sets the counter back to 1).
C2_IdsIncreaseSinceLastClear ==
    [][\A t \in Threads :
          AssignsId(t) =>
              \A i \in 1..Len(_EVENTS) :
                  _EVENTS[i].id < local'[t].event_with_id.id]_vars

\* C2 witness: id 2 has been assigned while the store holds event 1
C2_Witness ==
    \E t \in Threads :
        /\ pc[t] = "add_load_next"
        /\ local[t].event_with_id.id = 2
        /\ Len(_EVENTS) = 1
        /\ _EVENTS[1].id = 1

\* C3: under any interleaving of add_event calls from several threads the
\* stored events carry distinct ids that increase with the position in the
\* log, and when a call returns its event is the last of the log: no other
\* call's append overwrote it or slipped in before the lock was released.
C3_ConcurrentAddsKeepOrder ==
    /\ [](\A i, j \in 1..Len(_EVENTS) : i < j => _EVENTS[i].id < _EVENTS[j].id)
    /\ [][\A t \in Threads :
             (pc[t] = "add_return" /\ pc'[t] = "idle") =>
                 /\ Len(_EVENTS) > 0
                 /\ _EVENTS[Len(_EVENTS)] = local[t].event_with_id]_vars

\* C3 witness: two different callers have appended, the second still holds
\* the lock
C3_Witness ==
    /\ Len(_EVENTS) = 2
    /\ _EVENTS[1].meta # _EVENTS[2].meta
    /\ \E t \in Threads : pc[t] = "add_return" /\ _LOCK = t

-----------------------------------------------------------------------------
(* The store and a caller that keeps what the store returned.  A Python     *)
(* reference to a stored dict is the position of that dict in _EVENTS; it   *)
(* stays an alias until clear_events rebinds _EVENTS to a new list.         *)

CallerEvents ==
    {[intersection_id |-> "INT001", timestamp |-> ISO_MORNING, vehicle_count |-> 4,
      avg_speed |-> 45, queue_len |-> 1, meta |-> {}],
     [intersection_id |-> "INT002", timestamp |-> ISO_EVENING, vehicle_count |-> 20,
      avg_speed |-> 12, queue_len |-> 9, meta |-> {}]}

caller_hub_vars == <<_LOCK, socketio_instance, update_timers, connected, room, timers,
                     now, emitted, pc, local, assigned, serving>>

\* add_event returns event_with_id, the dict it appended (lines 16-17): the
\* caller's reference is the last position of the list
caller_add_event(event) ==
    /\ Len(_EVENTS) < MaxEvents
    /\ add_event(event)
    /\ caller_refs' = caller_refs \cup {Len(_EVENTS')}
    /\ last' = [op |-> "add_event", sid |-> "", arg |-> event,
                ret |-> _EVENTS'[Len(_EVENTS')]]
    /\ UNCHANGED caller_hub_vars

\* get_recent_events returns a new list of the stored dicts themselves
\* (line 23): the caller's references are the positions of the window
caller_get_recent_events(limit) ==
    /\ last' = [op |-> "get_recent_events", sid |-> "", arg |-> limit,
                ret |-> get_recent_events(limit)]
    /\ caller_refs' = caller_refs \cup
           {i \in 1..Len(_EVENTS) : i > Len(_EVENTS) - Max(0, limit)}
    /\ UNCHANGED <<_EVENTS, _NEXT_ID>>
    /\ UNCHANGED caller_hub_vars

\* clear_events binds _EVENTS to a new list: the old dicts leave the store
caller_clear_events ==
    /\ _EVENTS' = <<>>
    /\ _NEXT_ID' = 1
    /\ caller_refs' = {}
    /\ last' = [op |-> "clear_events", sid |-> "", arg |-> <<>>, ret |-> <<>>]
    /\ UNCHANGED caller_hub_vars

\* The caller assigns to a key of a dict it was handed: d["vehicle_count"] = v
caller_write(ref, value) ==
    /\ ref \in caller_refs
    /\ _EVENTS' = [_EVENTS EXCEPT ![ref].vehicle_count = value]
    /\ last' = [op |-> "caller_write", sid |-> "", arg |-> <<ref, value>>, ret |-> <<>>]
    /\ UNCHANGED <<_NEXT_ID, caller_refs>>
    /\ UNCHANGED caller_hub_vars

NextCaller ==
    \/ \E event \in CallerEvents : caller_add_event(event)
    \/ \E limit \in {0, 1, 20} : caller_get_recent_events(limit)
    \/ caller_clear_events
    \/ \E ref \in 1..MaxEvents, value \in {0, 99} : caller_write(ref, value)

SpecCaller == Init /\ [][NextCaller]_vars

\* C4: a write by a caller to a dict that add_event or get_recent_events
\* returned leaves the contents of the store as they were.
C4_CallerWritesDoNotReachStore ==
    [][last'.op = "caller_write" => _EVENTS' = _EVENTS]_vars

-----------------------------------------------------------------------------
(* The lock and the analytics: broadcast_new_event and                      *)
(* get_intersection_patterns step by step, next to the store's threads.    *)

\* The analytics entry points that read the store, with the limit each passes
AnalysisLimit(fn) ==
    CASE fn = "analyze_current_conditions" -> 50
      [] fn = "get_intersection_patterns" -> 100

\* What each thread calls besides the store: the ingestion request thread
\* broadcasts after its add_event (ingestion.py line 44), a handler thread
\* asks for an intersection's patterns (events.py line 75), and the third
\* thread only uses the store, so that one broadcast and one pattern
\* analysis are in flight at a time
CallsOf(t) ==
    CASE t = "t1" -> {"analyze_current_conditions"}
      [] t = "t2" -> {"get_intersection_patterns"}
      [] OTHER -> {}

AnalysisCallers == {"analyze_current_conditions", "get_intersection_patterns"}

\* events = get_recent_events(limit): with _LOCK: blocks until the lock is free
analysis_get_acquire(t, fn) ==
    /\ pc[t] = "idle"
    /\ fn \in CallsOf(t)
    /\ _LOCK = "free"
    /\ _LOCK' = t
    /\ local' = [local EXCEPT ![t].limit = AnalysisLimit(fn)]
    /\ pc' = [pc EXCEPT ![t] = fn \o ":get_copy"]
    /\ UNCHANGED <<_EVENTS, _NEXT_ID, assigned>>
    /\ UNCHANGED store_hub_vars

\* list(reversed(_EVENTS))[: max(0, int(limit))], built under the lock
analysis_get_copy(t, fn) ==
    /\ pc[t] = fn \o ":get_copy"
    /\ local' = [local EXCEPT ![t].ret = get_recent_events(local[t].limit)]
    /\ pc' = [pc EXCEPT ![t] = fn \o ":get_return"]
    /\ UNCHANGED <<_EVENTS, _NEXT_ID, _LOCK, assigned>>
    /\ UNCHANGED store_hub_vars

\* The copy handed to the analysis with the lock still held
analysis_get_return_locked(t, fn) ==
    /\ pc[t] = fn \o ":get_return"
    /\ pc' = [pc EXCEPT ![t] = fn \o ":compute"]
    /\ UNCHANGED <<_EVENTS, _NEXT_ID, _LOCK, local, assigned>>
    /\ UNCHANGED store_hub_vars

\* get_recent_events returns: the with block releases the lock, the copy is
\* the analysis's local events
analysis_get_return(t, fn) ==
    /\ pc[t] = fn \o ":get_return"
    /\ _LOCK' = "free"
    /\ pc' = [pc EXCEPT ![t] = fn \o ":compute"]
    /\ UNCHANGED <<_EVENTS, _NEXT_ID, local, assigned>>
    /\ UNCHANGED store_hub_vars

\* The analysis proper, computed on the copy; analyze_current_conditions
\* returns into broadcast_new_event, get_intersection_patterns to its caller
analysis_compute(t, fn) ==
    /\ pc[t] = fn \o ":compute"
    /\ IF fn = "analyze_current_conditions"
       THEN /\ pc' = [pc EXCEPT ![t] = "broadcast_new_event:emit"]
            /\ local' = local
       ELSE /\ pc' = [pc EXCEPT ![t] = "idle"]
            /\ local' = [local EXCEPT ![t] = NoLocal]
    /\ UNCHANGED <<_EVENTS, _NEXT_ID, _LOCK, assigned>>
    /\ UNCHANGED store_hub_vars

\* socketio_instance.emit('traffic_update', ..., room='traffic_updates') with
\* the analysis of the copy
broadcast_new_event_emit(t) ==
    /\ pc[t] = "broadcast_new_event:emit"
    /\ emitted' = IF socketio_instance
                  THEN <<Msg("traffic_update", room,
                             [type |-> "new_event", event |-> ThreadEvent(t),
                              analysis |-> AnalysisOf(local[t].ret, now),
                              timestamp |-> isoformat(now)])>>
                  ELSE <<>>
    /\ last' = [op |-> "broadcast_new_event", sid |-> "", arg |-> t, ret |-> <<>>]
    /\ pc' = [pc EXCEPT ![t] = "idle"]
    /\ local' = [local EXCEPT ![t] = NoLocal]
    /\ UNCHANGED <<_EVENTS, _NEXT_ID, _LOCK, assigned, socketio_instance,
                   update_timers, connected, room, timers, now, caller_refs, serving>>

NextLock ==
    \/ NextStore
    \/ \E t \in Threads, fn \in AnalysisCallers : analysis_get_acquire(t, fn)
    \/ \E t \in Threads, fn \in AnalysisCallers : analysis_get_copy(t, fn)
    \/ \E t \in Threads, fn \in AnalysisCallers : analysis_get_return(t, fn)
    \/ \E t \in Threads, fn \in AnalysisCallers : analysis_compute(t, fn)
    \/ \E t \in Threads : broadcast_new_event_emit(t)

SpecLock == Init /\ [][NextLock]_vars

\* The steps of database.py that run inside a with _LOCK: block
LockedSteps ==
    {"add_set_id", "add_load_next", "add_store_next", "add_append", "add_return",
     "clear_rebind", "clear_reset_id", "get_copy", "get_return"}
    \cup {fn \o ":get_copy" : fn \in AnalysisCallers}
    \cup {fn \o ":get_return" : fn \in AnalysisCallers}

\* The steps in which an analysis is computed or a broadcast is emitted
AnalysisSteps ==
    {fn \o ":compute" : fn \in AnalysisCallers} \cup {"broadcast_new_event:emit"}

\* C11: the store's lock is held only while a single append, clear or list
\* copy runs; no thread holds it while it computes the network analysis or
\* the pattern analysis or emits a broadcast.
C11_LockOnlyAroundStoreSteps ==
    \A t \in Threads :
        /\ _LOCK = t => pc[t] \in LockedSteps
        /\ pc[t] \in AnalysisSteps => _LOCK # t

\* One thread computes the network analysis while another appends
C11_Witness ==
    \E t, u \in Threads :
        /\ pc[t] = "analyze_current_conditions:compute"
        /\ pc[u] = "add_append"
        /\ _LOCK = u

-----------------------------------------------------------------------------
(* The network analysis as a function of the store: the store starts with  *)
(* events that earlier ingests left in it.                                   *)

MaxWindow == 5

\* Readings whose congestion level is low, moderate and high
WindowReadings == {<<4, 45, 1>>, <<12, 25, 6>>, <<20, 12, 9>>}

\* The event with id i of a store: at its own intersection or at the first
WindowEvent(i, own, reading) ==
    [id |-> i,
     intersection_id |-> IF own THEN "INT00" \o NatStr(i) ELSE "INT001",
     timestamp |-> ISO_MORNING,
     vehicle_count |-> reading[1], avg_speed |-> reading[2], queue_len |-> reading[3],
     meta |-> {}]

\* For each of n accepted ingests, whether it names its own intersection and
\* the reading it carries
WindowChoices(n) == [1..n -> BOOLEAN \X WindowReadings]

\* The store that the ingests c leave
WindowStore(c) == [i \in DOMAIN c |-> WindowEvent(i, c[i][1], c[i][2])]

AnalysisLimits == {0, 2, 100}

\* analytics.analyze_current_conditions(limit), as GET /api/analytics calls
\* it with limit=100
analyze_current_conditions_call(limit) ==
    /\ last' = [op |-> "analyze_current_conditions", sid |-> "", arg |-> limit,
                ret |-> analyze_current_conditions(limit)]
    /\ emitted' = <<>>
    /\ UNCHANGED <<_EVENTS, _NEXT_ID, _LOCK, socketio_instance, update_timers,
                   connected, room, timers, now, pc, local, assigned, caller_refs, serving>>

InitAnalytics ==
    /\ \E n \in 0..MaxWindow : \E c \in WindowChoices(n) : _EVENTS = WindowStore(c)
    /\ _NEXT_ID = Len(_EVENTS) + 1
    /\ _LOCK = "free"
    /\ socketio_instance = TRUE
    /\ update_timers = {}
    /\ connected = {}
    /\ room = {}
    /\ timers = 0
    /\ now = 0
    /\ emitted = <<>>
    /\ last = NoOp
    /\ pc = [t \in Threads |-> "idle"]
    /\ local = [t \in Threads |-> NoLocal]
    /\ assigned = 1..Len(_EVENTS)
    /\ caller_refs = {}
    /\ serving = TRUE

NextAnalytics ==
    \/ \E limit \in AnalysisLimits : analyze_current_conditions_call(limit)
    \/ clear_events
    \/ AdvanceClock

SpecAnalytics == InitAnalytics /\ [][NextAnalytics]_vars

\* C12: analyze_current_conditions called twice with the same limit and no
\* store operation in between gives the same result, field by field.
C12_RepeatedAnalysisIdentical ==
    [][(/\ last.op = "analyze_current_conditions"
        /\ last'.op = "analyze_current_conditions"
        /\ last'.arg = last.arg
        /\ _EVENTS' = _EVENTS)
       => last'.ret = last.ret]_vars

-----------------------------------------------------------------------------
(* The functions of the analytics engine on their own: the argument is     *)
(* drawn at the start and the function is applied to it.                    *)

MaxCount == 20
MaxQueue == 12
MaxTrendLen == 7

Speeds == {10, 20, 21, 25, 30, 31, 40}
TrendCounts == {0, 1, 2, 3}

\* (vehicle_count, avg_speed, queue_len) of a latest event
ReadingInputs == (0..MaxCount) \X Speeds \X (0..MaxQueue)

\* vehicle_counts of an intersection, newest first
TrendInputs(n) == [1..n -> TrendCounts]

\* self._calculate_congestion_level(vehicle_count, avg_speed, queue_len)
calculate_congestion_level_call ==
    /\ last.op = "reading"
    /\ last' = [op |-> "_calculate_congestion_level", sid |-> "", arg |-> last.arg,
                ret |-> _calculate_congestion_level(last.arg[1], last.arg[2],
                                                    last.arg[3])]
    /\ UNCHANGED <<_EVENTS, _NEXT_ID, _LOCK, socketio_instance, update_timers,
                   connected, room, timers, now, emitted, pc, local, assigned,
                   caller_refs, serving>>

\* self._detect_trend(vehicle_counts)
detect_trend_call ==
    /\ last.op = "vehicle_counts"
    /\ last' = [op |-> "_detect_trend", sid |-> "", arg |-> last.arg,
                ret |-> _detect_trend(last.arg)]
    /\ UNCHANGED <<_EVENTS, _NEXT_ID, _LOCK, socketio_instance, update_timers,
                   connected, room, timers, now, emitted, pc, local, assigned,
                   caller_refs, serving>>

InitFunctions ==
    /\ _EVENTS = <<>>
    /\ _NEXT_ID = 1
    /\ _LOCK = "free"
    /\ socketio_instance = TRUE
    /\ update_timers = {}
    /\ connected = {}
    /\ room = {}
    /\ timers = 0
    /\ now = 0
    /\ emitted = <<>>
    /\ \/ \E r \in ReadingInputs :
              last = [op |-> "reading", sid |-> "", arg |-> r, ret |-> <<>>]
       \/ \E n \in 0..MaxTrendLen : \E v \in TrendInputs(n) :
              last = [op |-> "vehicle_counts", sid |-> "", arg |-> v, ret |-> <<>>]
    /\ pc = [t \in Threads |-> "idle"]
    /\ local = [t \in Threads |-> NoLocal]
    /\ assigned = {}
    /\ caller_refs = {}
    /\ serving = TRUE

\* Dashboard: app/Blueprints/Dashboard/dashboard.py
\* highway_summary.congestion_level(vc, spd, ql): the thresholds are written
\* out as literals
congestion_level(vc, spd, ql) ==
    LET score == (IF vc >= 15 THEN 2 ELSE IF vc >= 11 THEN 1 ELSE 0)
                 + (IF spd <= 20 THEN 2 ELSE IF spd <= 30 THEN 1 ELSE 0)
                 + (IF ql >= 8 THEN 2 ELSE IF ql >= 5 THEN 1 ELSE 0)
    IN  IF score >= 4 THEN "high"
        ELSE IF score >= 2 THEN "moderate"
        ELSE "low"

\* highway_summary computing the level of an intersection's latest reading
congestion_level_call ==
    /\ last.op = "reading"
    /\ last' = [op |-> "congestion_level", sid |-> "", arg |-> last.arg,
                ret |-> congestion_level(last.arg[1], last.arg[2], last.arg[3])]
    /\ UNCHANGED <<_EVENTS, _NEXT_ID, _LOCK, socketio_instance, update_timers,
                   connected, room, timers, now, emitted, pc, local, assigned,
                   caller_refs, serving>>

NextFunctions ==
    \/ calculate_congestion_level_call
    \/ detect_trend_call
    \/ congestion_level_call

SpecFunctions == InitFunctions /\ [][NextFunctions]_vars

\* C13: the congestion level follows the point rule: vehicle count >= 15
\* gives 2 points and >= 10.5 gives 1; average speed <= 20 gives 2 and <= 30
\* gives 1; queue length >= 8 gives 2 and >= 5.6 gives 1; the level is high
\* when the points sum to 4 or more, moderate when to 2 or 3, low otherwise.
\* So (20, 10, 12) is high, (10, 40, 2) low and (12, 25, 6) moderate.
C13_CongestionLevelPointRule ==
    last.op = "_calculate_congestion_level" =>
        LET vc == last.arg[1]
            speed == last.arg[2]
            queue == last.arg[3]
            points ==
                (IF vc >= 15 THEN 2 ELSE IF 2 * vc >= 21 THEN 1 ELSE 0)
                + (IF speed <= 20 THEN 2 ELSE IF speed <= 30 THEN 1 ELSE 0)
                + (IF queue >= 8 THEN 2 ELSE IF 5 * queue >= 28 THEN 1 ELSE 0)
        IN  /\ last.ret = "high" <=> points >= 4
            /\ last.ret = "moderate" <=> points \in {2, 3}
            /\ last.ret = "low" <=> points < 2
            /\ last.arg = <<20, 10, 12>> => last.ret = "high"
            /\ last.arg = <<10, 40, 2>> => last.ret = "low"
            /\ last.arg = <<12, 25, 6>> => last.ret = "moderate"

\* A reading on each full threshold is graded
C13_Witness ==
    /\ last.op = "_calculate_congestion_level"
    /\ last.arg = <<15, 20, 8>>
    /\ last.ret = "high"

\* C14: fewer than four values give stable; otherwise, with recent_avg the
\* mean of the first three values and older_avg the mean of the values at
\* indices 3..5 that exist, the trend is increasing iff recent_avg >
\* older_avg + 2, decreasing iff recent_avg < older_avg - 2, else stable;
\* values at index 6 and beyond do not affect it.
C14_TrendRule ==
    last.op = "_detect_trend" =>
        LET values == last.arg
            n == Len(values)
            older == SubSeq(values, 4, Min(n, 6))
            k == Len(older)
            recent_sum == values[1] + values[2] + values[3]
            older_sum == SumSeq(older)
        IN  IF n < 4 THEN last.ret = "stable"
            ELSE /\ last.ret = "increasing" <=> recent_sum * k > 3 * older_sum + 6 * k
                 /\ last.ret = "decreasing" <=> recent_sum * k < 3 * older_sum - 6 * k
                 /\ last.ret \in {"increasing", "decreasing", "stable"}

\* The window a recorded analysis was computed on: AdvanceClock is the only
\* step that keeps `last`, and it keeps the store
AnalysedWindow == RecentOf(_EVENTS, last.arg)
WindowIds == {AnalysedWindow[i].intersection_id : i \in 1..Len(AnalysedWindow)}

\* C15: for a non-empty window the intersections map has exactly one entry
\* per distinct intersection_id of the window, and the alerts list holds
\* exactly one alert for each intersection whose level is moderate or high,
\* with that level as its severity, and none for an intersection whose level
\* is low.
C15_OneAlertPerCongestedIntersection ==
    (last.op = "analyze_current_conditions" /\ AnalysedWindow # <<>>) =>
        LET r == last.ret
            AlertsFor(iid) ==
                {i \in 1..Len(r.alerts) : r.alerts[i].intersection_id = iid}
        IN  /\ DOMAIN r.intersections = WindowIds
            /\ \A i \in 1..Len(r.alerts) : r.alerts[i].intersection_id \in WindowIds
            /\ \A iid \in WindowIds :
                  LET lvl == r.intersections[iid].congestion_level
                  IN  IF lvl \in {"moderate", "high"}
                      THEN /\ Cardinality(AlertsFor(iid)) = 1
                           /\ \A i \in AlertsFor(iid) : r.alerts[i].severity = lvl
                      ELSE /\ lvl = "low"
                           /\ AlertsFor(iid) = {}

\* An analysis of a low, a moderate and a high intersection, one of them
\* with two events in the window
C15_Witness ==
    /\ last.op = "analyze_current_conditions"
    /\ AnalysedWindow # <<>>
    /\ Len(AnalysedWindow) > Cardinality(WindowIds)
    /\ {last.ret.intersections[iid].congestion_level : iid \in WindowIds}
           = {"low", "moderate", "high"}
    /\ Len(last.ret.alerts) = 2

\* C16: congestion_rate is congested_intersections / total_intersections,
\* total_intersections is the number of distinct intersection ids of the
\* window, and network_status is heavy iff the rate is >= 0.6, moderate iff
\* it is >= 0.3 and < 0.6, light iff it is < 0.3; it is unknown only when
\* there is no intersection.
C16_RateAndNetworkStatus ==
    (last.op = "analyze_current_conditions" /\ AnalysedWindow # <<>>) =>
        LET o == last.ret.overall_stats
            c == o.congested_intersections
            n == o.total_intersections
        IN  /\ n = Cardinality(WindowIds)
            /\ o.congestion_rate = <<c, n>>
            /\ o.network_status = "heavy" <=> 10 * c >= 6 * n
            /\ o.network_status = "moderate" <=> (10 * c >= 3 * n /\ 10 * c < 6 * n)
            /\ o.network_status = "light" <=> 10 * c < 3 * n
            /\ o.network_status = "unknown" => n = 0

\* Three congested intersections of five: the rate is exactly 0.6
C16_Witness ==
    /\ last.op = "analyze_current_conditions"
    /\ AnalysedWindow # <<>>
    /\ last.ret.overall_stats.congestion_rate = <<3, 5>>
    /\ last.ret.overall_stats.network_status = "heavy"

\* C17: an analysis of an empty window (the store is empty, it has been
\* cleared, or the limit is <= 0) returns status no_data with an empty
\* intersections map.
C17_EmptyWindowNoData ==
    (last.op = "analyze_current_conditions" /\ AnalysedWindow = <<>>) =>
        /\ last.ret.status = "no_data"
        /\ DOMAIN last.ret.intersections = {}
        /\ DOMAIN last.ret = {"status", "intersections"}

\* An analysis with a positive limit of a store that clear_events emptied
C17_Witness ==
    /\ last.op = "analyze_current_conditions"
    /\ last.arg > 0
    /\ _EVENTS = <<>>
    /\ assigned # {}
    /\ last.ret.status = "no_data"

-----------------------------------------------------------------------------
(* Intersection patterns and the detail request                             *)

\* round(sum / n, 1) in tenths: the quotient is rounded to the nearest tenth,
\* and a quotient halfway between two tenths (a multiple of 1/4 when n < 20,
\* which a double holds exactly) goes to the even one
Round1(sum, n) ==
    LET t == (10 * sum) \div n
        r == 10 * sum - t * n
    IN  IF 2 * r > n THEN t + 1
        ELSE IF 2 * r < n THEN t
        ELSE IF t % 2 = 0 THEN t ELSE t + 1

\* The keys of hourly_data in insertion order: the hour of each event whose
\* timestamp parses, at its first occurrence; the others are skipped
RECURSIVE HourOrder(_, _)
HourOrder(events, seen) ==
    IF events = <<>> THEN <<>>
    ELSE LET p == fromisoformat(Head(events).timestamp)
         IN  IF ~p.ok \/ p.hour \in seen
             THEN HourOrder(Tail(events), seen)
             ELSE <<p.hour>> \o HourOrder(Tail(events), seen \cup {p.hour})

\* hourly_data taking an event whose timestamp does not parse into every
\* hour's list
HourEvents_unparsed_kept(events, hour) ==
    SelectSeq(events, LAMBDA e : LET p == fromisoformat(e.timestamp)
                                 IN  ~p.ok \/ p.hour = hour)

\* hourly_data[hour]
HourEvents(events, hour) ==
    SelectSeq(events, LAMBDA e : LET p == fromisoformat(e.timestamp)
                                 IN  p.ok /\ p.hour = hour)

\* hour_averages[hour]; the rounded means are in tenths
HourAverage(hour_events) ==
    LET n == Len(hour_events)
    IN  [vehicle_count |->
             Round1(SumSeq([i \in 1..n |-> hour_events[i].vehicle_count]), n),
         avg_speed |-> Round1(SumSeq([i \in 1..n |-> hour_events[i].avg_speed]), n),
         queue_length |-> Round1(SumSeq([i \in 1..n |-> hour_events[i].queue_len]), n),
         sample_count |-> n]

\* sorted(..., key=vehicle_count, reverse=True): stable, so hours with equal
\* keys stay in insertion order
RECURSIVE SortedHours(_, _)
SortedHours(hours, avg) ==
    IF hours = <<>> THEN <<>>
    ELSE LET first == CHOOSE i \in 1..Len(hours) :
                          \A j \in 1..Len(hours) :
                              \/ avg[hours[j]].vehicle_count < avg[hours[i]].vehicle_count
                              \/ /\ avg[hours[j]].vehicle_count = avg[hours[i]].vehicle_count
                                 /\ i <= j
             rest == [j \in 1..(Len(hours) - 1) |->
                         IF j < first THEN hours[j] ELSE hours[j + 1]]
         IN  <<hours[first]>> \o SortedHours(rest, avg)

\* e["intersection_id"] == intersection_id: a stored id is a str
IdMatches(e, intersection_id) ==
    intersection_id.t = "str" /\ e.intersection_id = intersection_id.s

\* get_intersection_patterns on the list value evs
PatternsOf(evs, intersection_id) ==
    LET events == RecentOf(evs, 100)
        intersection_events == SelectSeq(events, LAMBDA e : IdMatches(e, intersection_id))
    IN  IF intersection_events = <<>>
        THEN [status |-> "no_data", intersection_id |-> intersection_id]
        ELSE
            LET order == HourOrder(intersection_events, {})
                hours == {order[i] : i \in 1..Len(order)}
                hour_averages ==
                    [h \in hours |-> HourAverage(HourEvents(intersection_events, h))]
                sorted_hours == SortedHours(order, hour_averages)
                total_hours == Len(sorted_hours)
                peak_count == Max(1, total_hours \div 3)
            IN  [intersection_id |-> intersection_id,
                 analysis_period_hours |-> 24,
                 hourly_averages |-> hour_averages,
                 peak_hours |-> Take(sorted_hours, peak_count),
                 off_peak_hours |->
                     SubSeq(sorted_hours, Max(1, total_hours - peak_count + 1),
                            total_hours)]

get_intersection_patterns(intersection_id) == PatternsOf(_EVENTS, intersection_id)

\* not x, for a JSON scalar x
py_not(x) ==
    \/ x.t = "null"
    \/ x.t = "str" /\ x.s = ""
    \/ x.t = "int" /\ x.n = 0

\* The handler without the test of intersection_id
DetailsMsgs_unchecked(sid, data) ==
    LET intersection_id == DictGet(data, "intersection_id", JNull)
        recent_events ==
            SelectSeq(get_recent_events(50), LAMBDA e : IdMatches(e, intersection_id))
    IN  <<Msg("intersection_details", {sid},
              [intersection_id |-> intersection_id,
               patterns |-> get_intersection_patterns(intersection_id),
               recent_events |-> Take(recent_events, 10),
               timestamp |-> isoformat(now)])>>

\* on_request_intersection_details's emits, all to the requesting session
DetailsMsgs(sid, data) ==
    LET intersection_id == DictGet(data, "intersection_id", JNull)
        recent_events ==
            SelectSeq(get_recent_events(50), LAMBDA e : IdMatches(e, intersection_id))
    IN  IF py_not(intersection_id)
        THEN <<Msg("error", {sid}, [message |-> "Missing intersection_id"])>>
        ELSE <<Msg("intersection_details", {sid},
                   [intersection_id |-> intersection_id,
                    patterns |-> get_intersection_patterns(intersection_id),
                    recent_events |-> Take(recent_events, 10),
                    timestamp |-> isoformat(now)])>>

on_request_intersection_details(sid, data) ==
    /\ sid \in connected
    /\ emitted' = DetailsMsgs(sid, data)
    /\ last' = [op |-> "request_intersection_details", sid |-> sid, arg |-> data,
                ret |-> <<>>]
    /\ UNCHANGED <<_EVENTS, _NEXT_ID, _LOCK, socketio_instance, update_timers,
                   connected, room, timers, now, pc, local, assigned, caller_refs, serving>>

MaxOlder == 2
MaxOthers == 51
MaxNewer == 11

\* The event with id i of a store that holds `older` events of INT001, then
\* `others` events of INT002, then newer events of INT001
DetailEvent(i, older, others) ==
    IF i <= older
    THEN [id |-> i, intersection_id |-> "INT001", timestamp |-> ISO_MORNING,
          vehicle_count |-> 12, avg_speed |-> 25, queue_len |-> 6, meta |-> {}]
    ELSE IF i <= older + others
    THEN [id |-> i, intersection_id |-> "INT002", timestamp |-> ISO_MORNING,
          vehicle_count |-> 4, avg_speed |-> 45, queue_len |-> 1, meta |-> {}]
    ELSE [id |-> i, intersection_id |-> "INT001", timestamp |-> ISO_EVENING,
          vehicle_count |-> 20, avg_speed |-> 12, queue_len |-> 9, meta |-> {}]

DetailStore(older, others, newer) ==
    [i \in 1..(older + others + newer) |-> DetailEvent(i, older, others)]

\* Payloads of request_intersection_details: a known and an unknown id, an
\* empty id, a null id and no id
DetailRequests ==
    {[intersection_id |-> JStr("INT001")], [intersection_id |-> JStr("INT009")],
     [intersection_id |-> JStr("")], [intersection_id |-> JNull],
     [room |-> JStr("traffic_updates")]}

\* Both sessions are connected and subscribed, the store holds the events of
\* earlier ingests
InitDetails ==
    /\ \E older \in 0..MaxOlder, others \in 0..MaxOthers, newer \in 0..MaxNewer :
           _EVENTS = DetailStore(older, others, newer)
    /\ _NEXT_ID = Len(_EVENTS) + 1
    /\ _LOCK = "free"
    /\ socketio_instance = TRUE
    /\ update_timers = {}
    /\ connected = Sessions
    /\ room = Sessions
    /\ timers = MaxTimers
    /\ now = 0
    /\ emitted = <<>>
    /\ last = NoOp
    /\ pc = [t \in Threads |-> "idle"]
    /\ local = [t \in Threads |-> NoLocal]
    /\ assigned = 1..Len(_EVENTS)
    /\ caller_refs = {}
    /\ serving = TRUE

NextDetails ==
    \E sid \in Sessions, data \in DetailRequests : on_request_intersection_details(sid, data)

SpecDetails == InitDetails /\ [][NextDetails]_vars

\* The request recorded in `last` carries no intersection_id or an empty one
NoIntersectionId(data) ==
    \/ "intersection_id" \notin DOMAIN data
    \/ data.intersection_id = JNull
    \/ data.intersection_id = JStr("")

C19_DetailsTenMostRecentOfStore ==
    (last.op = "request_intersection_details" /\ ~NoIntersectionId(last.arg)) =>
        LET r == emitted[1].payload.recent_events
            Matching == {i \in 1..Len(_EVENTS) :
                            IdMatches(_EVENTS[i], last.arg.intersection_id)}
            m == Cardinality(Matching)
            returned == {r[i].id : i \in 1..Len(r)}
        IN  /\ emitted[1].name = "intersection_details"
            /\ Len(r) = Min(10, m)
            /\ \A i \in 1..Len(r) : \E j \in Matching : _EVENTS[j] = r[i]
            /\ \A i \in 1..(Len(r) - 1) : r[i].id > r[i + 1].id
            /\ \A j \in Matching :
                  _EVENTS[j].id \notin returned =>
                      \A i \in 1..Len(r) : r[i].id > _EVENTS[j].id

-----------------------------------------------------------------------------
(* The periodic tick over the life of the server: the timers fire for as   *)
(* long as they are pending, the handlers run while the server serves.      *)

\* socketio.run(app, ...) returns (manage.py line 35): the server stops and
\* its sessions are closed.  Nothing in the code cancels a pending
\* Timer(10.0, send_update) or keeps send_update from starting the next one,
\* and threading.Timer threads are not daemon threads, so they outlive the
\* return.
shutdown ==
    /\ serving
    /\ serving' = FALSE
    /\ connected' = {}
    /\ room' = {}
    /\ emitted' = <<>>
    /\ last' = [op |-> "shutdown", sid |-> "", arg |-> <<>>, ret |-> <<>>]
    /\ UNCHANGED <<_EVENTS, _NEXT_ID, _LOCK, socketio_instance, update_timers,
                   timers, now, pc, local, assigned, caller_refs>>

TickPayloads == {P_high}

NextTick ==
    \/ \E sid \in Sessions : serving /\ on_connect(sid)
    \/ \E sid \in Sessions : serving /\ on_disconnect(sid)
    \/ \E sid \in Sessions : serving /\ on_subscribe_updates(sid)
    \/ \E sid \in Sessions : serving /\ on_unsubscribe_updates(sid)
    \/ \E data \in TickPayloads : serving /\ ingest_request(data)
    \/ send_update
    \/ shutdown

\* A pending Timer fires after its 10 seconds
SpecTick == Init /\ [][NextTick]_vars /\ WF_vars(send_update)

\* C21: once shutdown has been requested no further tick is scheduled: a
\* send_update that runs after the shutdown starts no timer for a next run,
\* so the pending timers run out and none is created again.
C21_ShutdownStopsTheTick ==
    [][(~serving /\ last'.op = "send_update") => timers' < timers]_vars

\* C22: as long as at least one session stays in the broadcast group the
\* tick fires again and again, whoever subscribed first and whether that
\* session is still there; every firing sends the analysis of the latest 100
\* events and the latest 10 events.
C22_TickKeepsFiring ==
    /\ <>[](room # {}) => []<>(last.op = "send_update")
    /\ [](last.op = "send_update" =>
            /\ emitted[1].name = "traffic_update"
            /\ emitted[1].payload.type = "periodic_update"
            /\ emitted[1].payload.analysis = AnalysisOf(RecentOf(_EVENTS, 100), now)
            /\ emitted[1].payload.recent_events = RecentOf(_EVENTS, 10))

\* A tick fires for the one session left in the group after two subscribes
C22_Witness ==
    /\ last.op = "send_update"
    /\ timers = 2
    /\ Cardinality(room) = 1
    /\ connected = room
    /\ _EVENTS # <<>>

-----------------------------------------------------------------------------
(* The critical alert of a tick and the order of a subscription's messages, *)
(* checked under Spec.                                                        *)

\* The alerts of severity 'high' in the analysis a tick has sent
HighAlertsSent ==
    LET analysis == emitted[1].payload.analysis
    IN  IF analysis.status = "ok"
        THEN SelectSeq(analysis.alerts, LAMBDA a : a.severity = "high")
        ELSE <<>>

\* C23: a tick (a timer firing, or the immediate one of a subscribe) sends
\* critical_alert exactly when its analysis holds an alert of severity high;
\* the message carries the high alerts and no other, goes to the group, and
\* comes right after the tick's periodic_update.
C23_CriticalAlertIffHighAlerts ==
    last.op \in {"send_update", "subscribe_updates"} =>
        /\ emitted[1].name = "traffic_update"
        /\ emitted[1].payload.type = "periodic_update"
        /\ (HighAlertsSent # <<>>) <=>
               (\E i \in 1..Len(emitted) : emitted[i].name = "critical_alert")
        /\ \A i \in 1..Len(emitted) :
               emitted[i].name = "critical_alert" =>
                   /\ i = 2
                   /\ emitted[i].payload.alerts = HighAlertsSent
                   /\ \A k \in 1..Len(emitted[i].payload.alerts) :
                          emitted[i].payload.alerts[k].severity = "high"
                   /\ emitted[i].to = room

\* A timer's tick whose analysis holds a moderate and a high alert sends the
\* high one as critical
C23_Witness ==
    /\ last.op = "send_update"
    /\ Len(emitted) = 2
    /\ emitted[2].name = "critical_alert"
    /\ Len(emitted[2].payload.alerts) = 1
    /\ Len(emitted[1].payload.analysis.alerts) = 2
    /\ room # {}

\* C27: a subscribe joins the group, runs one tick at once and confirms
\* last: the subscriber gets a periodic_update before its one
\* subscription_confirmed (status subscribed, update_interval 10), and a
\* session confirmed as subscribed is in the group.
C27_SubscribeOrder ==
    /\ last.op = "subscribe_updates" =>
           /\ last.sid \in room
           /\ emitted[Len(emitted)] =
                  Msg("subscription_confirmed", {last.sid},
                      [status |-> "subscribed", update_interval |-> 10])
           /\ \A i \in 1..Len(emitted) :
                  emitted[i].name = "subscription_confirmed" => i = Len(emitted)
           /\ \E i \in 1..(Len(emitted) - 1) :
                  /\ emitted[i].name = "traffic_update"
                  /\ emitted[i].payload.type = "periodic_update"
                  /\ last.sid \in emitted[i].to
    /\ \A i \in 1..Len(emitted) :
           (/\ emitted[i].name = "subscription_confirmed"
            /\ emitted[i].payload.status = "subscribed") =>
               emitted[i].to \subseteq room

\* The second session subscribes while the store holds a high reading: its
\* confirmation follows the periodic_update and the critical_alert
C27_Witness ==
    /\ last.op = "subscribe_updates"
    /\ room = Sessions
    /\ Len(emitted) = 3
    /\ emitted[3].name = "subscription_confirmed"
    /\ emitted[3].to = {last.sid}

-----------------------------------------------------------------------------
(* The highway summary's level against the analytics engine's, under        *)
(* SpecFunctions.                                                            *)

\* C25: for every reading the highway summary's congestion level is the
\* level the analytics engine's _calculate_congestion_level gives.
C25_HighwayLevelIsAnalyticsLevel ==
    last.op = "congestion_level" =>
        last.ret = _calculate_congestion_level(last.arg[1], last.arg[2], last.arg[3])

-----------------------------------------------------------------------------
(* The shape of the store, under SpecStore.                                  *)

\* The counter is one past the number of stored events and the event at
\* position i (from 1) has id i
StoreShape ==
    /\ _NEXT_ID = Len(_EVENTS) + 1
    /\ \A i \in 1..Len(_EVENTS) : _EVENTS[i].id = i

\* C26: in every reachable state, under any interleaving of add_event and
\* clear_events, the next id is the number of stored events plus 1 and the
\* stored ids are 1..count in log order.
C26_StoreShapeInEveryState == StoreShape

\* C26 as amended: the same whenever no call is inside the locked section,
\* which is every state a caller that takes the lock can find.
C26_StoreShapeWhenLockFree == _LOCK = "free" => StoreShape

\* Two threads have added, no call is in progress
C26_Witness ==
    /\ _LOCK = "free"
    /\ \A t \in Threads : pc[t] = "idle"
    /\ Len(_EVENTS) = 2
    /\ _EVENTS[1].meta # _EVENTS[2].meta
    /\ _NEXT_ID = 3

-----------------------------------------------------------------------------
(* get_intersection_patterns over stores that hold events whose timestamp   *)
(* does not parse.  /api/ingest rejects such a timestamp, so these events   *)
(* come from callers of add_event, which stores any dict.                   *)

MaxPatternEvents == 4

ISO_NINE == "2024-05-01T09:00:20"
NOT_ISO == "08:00 yesterday"

PatternTimestamps == {ISO_MORNING, ISO_NINE, ISO_EVENING, NOT_ISO}
PatternCounts == {4, 21}

\* The i-th stored event, an add_event of intersection INT001
PatternEvent(i, timestamp, vehicle_count) ==
    [id |-> i, intersection_id |-> "INT001", timestamp |-> timestamp,
     vehicle_count |-> vehicle_count, avg_speed |-> 25, queue_len |-> 6,
     meta |-> {}]

PatternChoices(n) == [1..n -> PatternTimestamps \X PatternCounts]

\* The store that the add_event calls c leave
PatternStore(c) == [i \in DOMAIN c |-> PatternEvent(i, c[i][1], c[i][2])]

PatternRequests == {JStr("INT001"), JStr("INT002")}

\* GET /api/intersection/<intersection_id>/patterns
get_intersection_patterns_call(intersection_id) ==
    /\ last.op = "add_event"
    /\ last' = [op |-> "get_intersection_patterns", sid |-> "",
                arg |-> intersection_id,
                ret |-> get_intersection_patterns(intersection_id)]
    /\ UNCHANGED <<_EVENTS, _NEXT_ID, _LOCK, socketio_instance, update_timers,
                   connected, room, timers, now, emitted, pc, local, assigned,
                   caller_refs, serving>>

InitPatterns ==
    /\ \E n \in 0..MaxPatternEvents : \E c \in PatternChoices(n) :
           /\ _EVENTS = PatternStore(c)
           /\ _NEXT_ID = n + 1
    /\ _LOCK = "free"
    /\ socketio_instance = TRUE
    /\ update_timers = {}
    /\ connected = {}
    /\ room = {}
    /\ timers = 0
    /\ now = 0
    /\ emitted = <<>>
    /\ last = [op |-> "add_event", sid |-> "", arg |-> <<>>, ret |-> <<>>]
    /\ pc = [t \in Threads |-> "idle"]
    /\ local = [t \in Threads |-> NoLocal]
    /\ assigned = {}
    /\ caller_refs = {}
    /\ serving = TRUE

NextPatterns == \E intersection_id \in PatternRequests :
                    get_intersection_patterns_call(intersection_id)

SpecPatterns == InitPatterns /\ [][NextPatterns]_vars

\* The window of the call, oldest first, and its events that parse
PatternWindow == Reverse(RecentOf(_EVENTS, 100))
ParsableWindow ==
    SelectSeq(PatternWindow, LAMBDA e : fromisoformat(e.timestamp).ok)

\* What a patterns result says about the hours; a 'no_data' result says
\* nothing
HourlyPart(patterns) ==
    IF "status" \in DOMAIN patterns
    THEN [hourly_averages |-> <<>>, peak_hours |-> <<>>, off_peak_hours |-> <<>>]
    ELSE [hourly_averages |-> patterns.hourly_averages,
          peak_hours |-> patterns.peak_hours,
          off_peak_hours |-> patterns.off_peak_hours]

\* C24: get_intersection_patterns skips an event whose timestamp does not
\* parse and returns normally: its hourly averages with their sample counts,
\* its peak hours and its off-peak hours are those of the same window
\* without the unparsable events.
C24_UnparsableTimestampsSkipped ==
    last.op = "get_intersection_patterns" =>
        /\ last.ret.intersection_id = last.arg
        /\ HourlyPart(last.ret) = HourlyPart(PatternsOf(ParsableWindow, last.arg))
        /\ \A h \in DOMAIN HourlyPart(last.ret).hourly_averages :
               HourlyPart(last.ret).hourly_averages[h].sample_count =
                   Cardinality({i \in 1..Len(PatternWindow) :
                                   /\ IdMatches(PatternWindow[i], last.arg)
                                   /\ fromisoformat(PatternWindow[i].timestamp).ok
                                   /\ fromisoformat(PatternWindow[i].timestamp).hour = h})

\* A call over two events of one hour, one of another and one whose
\* timestamp does not parse
C24_Witness ==
    /\ last.op = "get_intersection_patterns"
    /\ \E i \in 1..Len(_EVENTS) : _EVENTS[i].timestamp = NOT_ISO
    /\ "status" \notin DOMAIN last.ret
    /\ Cardinality(DOMAIN last.ret.hourly_averages) = 2
    /\ \E h \in DOMAIN last.ret.hourly_averages :
           last.ret.hourly_averages[h].sample_count = 2
    /\ last.ret.peak_hours # last.ret.off_peak_hours

====
